---- MODULE Spec2Model ----
(***************************************************************************)
(* A model of the byte-keyed trie of CasualSuperman/trie.                  *)
(*                                                                         *)
(* Three encodings of the container are modelled, each on its own heap:    *)
(*   t   the trie of trie.go, first listing (lines 1-277): pointer stack   *)
(*       in Remove, leaf shortcut in Search;                               *)
(*   ft  the trie of trie.go, second listing (lines 278-539): stack        *)
(*       frames (index, leaf) in Search and Remove;                        *)
(*   it  the iterTrie of iter_alt_trie.go;                                 *)
(*   mt  the map-keyed Trie of unnamed/part_000;                           *)
(*   at  the recursive altTrie of trie_test.go.                            *)
(* A heap maps a pointer to the node it points to.  A node is allocated    *)
(* when an edge to it is appended and is never re-parented, so the pointer *)
(* of a node is modelled by the sequence of letters that was walked when   *)
(* it was allocated; nodes no longer reachable from the root are freed     *)
(* (Go's garbage collector).  Slice indices are 0-based as in the source.  *)
(***************************************************************************)
EXTENDS Integers, Sequences, FiniteSets, TLC

\* ---------------------------------------------------------------- bounds
\* Keys are byte strings over the letters 1..NumLetters, at most MaxKeyLen long.
NumLetters == 2
MaxKeyLen == 2
\* Stored values are 1..MaxVal.
MaxVal == 2
\* At most MaxStored keys are stored at a time.
MaxStored == 3

Alphabet == 1..NumLetters
Keys == UNION {[1..n -> Alphabet] : n \in 0..MaxKeyLen}
Values == 1..MaxVal

\* ------------------------------------------------------- values, pointers
\* The nil interface{} value.
Nil == 0
\* The nil *trie pointer: 0 is no letter, so no node is ever allocated here.
NilPtr == <<0>>
\* The pointer of the root node, the receiver of every exported method.
Root == <<>>

\* trie.go:254-264, the three error constructors, and the nil error.
NoError == "nil"
emptyKey == "key empty"
notFound == "key not in trie"
duplicateKey == "key already in trie"
\* A run-time panic (index out of range), as the outcome of a call.
Panic == "panic"

\* &trie{nil, nil, false}
New == [children |-> <<>>, value |-> Nil, validLeaf |-> FALSE]

\* The heap after construction: the root alone.
NewHeap == [p \in {Root} |-> New]

\* s[i] of a Go slice.
At(s, i) == s[i + 1]
\* len(s) elements of s with the elements at i and j exchanged.
Swap(s, i, j) == [s EXCEPT ![i + 1] = s[j + 1], ![j + 1] = s[i + 1]]
\* s[:n]
Prefix(s, n) == SubSeq(s, 1, n)
\* key[1:]
Rest(s) == SubSeq(s, 2, Len(s))
Min(S) == CHOOSE x \in S : \A y \in S : x <= y

\* The pointers reachable from node p; every other node is garbage.
RECURSIVE Reach(_, _)
Reach(h, p) ==
    IF p \notin DOMAIN h THEN {}
    ELSE {p} \cup UNION {Reach(h, h[p].children[i].branch) : i \in 1..Len(h[p].children)}

\* The heap once the garbage collector has freed what the root no longer reaches.
Collect(h) == [p \in Reach(h, Root) |-> h[p]]

\* The result of a call: the error (Add, Update, Remove), the comma-ok pair
\* (Get) or the result list (Search).
Result(e, v, ok, rs) == [err |-> e, value |-> v, ok |-> ok, results |-> rs]
ErrResult(e) == Result(e, Nil, FALSE, <<>>)
GetResult(v, ok) == Result(NoError, v, ok, <<>>)
SearchResult(rs) == Result(NoError, Nil, FALSE, rs)

\* ------------------------------------------------ trie.go, first listing
\* The index of the first child of node p labelled r, or -1.
getChild(h, p, r) ==
    LET hit == {i \in 0..(Len(h[p].children) - 1) : At(h[p].children, i).letter = r}
    IN  IF hit = {} THEN -1 ELSE Min(hit)

\* The first child of node p labelled r, or nil.
getChildBranch(h, p, r) ==
    LET i == getChild(h, p, r)
    IN  IF i = -1 THEN NilPtr ELSE At(h[p].children, i).branch

\* getOrAddChildBranch with "t.children = []branch{branch}" for the append:
\* the new edge replaces the edges p had.
getOrAddChildBranchReplace(h, p, r) ==
    IF getChildBranch(h, p, r) # NilPtr
    THEN [heap |-> h, branch |-> getChildBranch(h, p, r)]
    ELSE LET c == Append(p, r)
             h2 == [q \in DOMAIN h \cup {c} |->
                      IF q = c THEN New
                      ELSE IF q = p
                           THEN [h[p] EXCEPT !.children = <<[letter |-> r, branch |-> c]>>]
                           ELSE h[q]]
         IN  [heap |-> Collect(h2), branch |-> c]

\* The child of p labelled r, appended as a fresh node when there is none.
getOrAddChildBranch(h, p, r) ==
    IF getChildBranch(h, p, r) # NilPtr
    THEN [heap |-> h, branch |-> getChildBranch(h, p, r)]
    ELSE LET c == Append(p, r)
         IN  [heap |-> [q \in DOMAIN h \cup {c} |->
                          IF q = c THEN New
                          ELSE IF q = p
                               THEN [h[p] EXCEPT !.children =
                                        Append(@, [letter |-> r, branch |-> c])]
                               ELSE h[q]],
              branch |-> c]

\* removeChild without the swap: the last edge is dropped, whichever it is.
removeChildNoSwap(h, p, c) ==
    [h EXCEPT ![p].children = Prefix(h[p].children, Len(h[p].children) - 1)]

\* removeChild without "t.children = t.children[:last]": the last edge is
\* copied over the edge to c and stays where it was.
removeChildNoTruncate(h, p, c) ==
    LET ch == h[p].children
        last == Len(ch) - 1
        hit == {i \in 0..last : At(ch, i).branch = c}
    IN  [h EXCEPT ![p].children =
            IF hit # {} /\ Min(hit) < last
            THEN [ch EXCEPT ![Min(hit) + 1] = At(ch, last)]
            ELSE ch]

\* Remove the edge of p that leads to c: swap it with the last, drop the last.
removeChild(h, p, c) ==
    LET ch == h[p].children
        last == Len(ch) - 1
        hit == {i \in 0..last : At(ch, i).branch = c}
        sw == IF hit # {} /\ Min(hit) < last THEN Swap(ch, Min(hit), last) ELSE ch
    IN  [h EXCEPT ![p].children = Prefix(sw, last)]

\* Remove the edge of p at index i: swap it with the last, drop the last.
removeChildIndex(h, p, i) ==
    LET ch == h[p].children
        last == Len(ch) - 1
        sw == IF i < last THEN Swap(ch, i, last) ELSE ch
    IN  [h EXCEPT ![p].children = Prefix(sw, last)]

\* for i < l && t != nil { t = t.getChildBranch(key[i]) }, from node p and
\* index i (0-based): the node the key leads to, or nil.
RECURSIVE walk(_, _, _, _)
walk(h, p, key, i) ==
    IF i < Len(key) /\ p # NilPtr
    THEN walk(h, getChildBranch(h, p, At(key, i)), key, i + 1)
    ELSE p

\* for i < l { t = t.getOrAddChildBranch(key[i]) }
RECURSIVE addWalk(_, _, _, _)
addWalk(h, p, key, i) ==
    IF i < Len(key)
    THEN LET s == getOrAddChildBranch(h, p, At(key, i))
         IN  addWalk(s.heap, s.branch, key, i + 1)
    ELSE [heap |-> h, branch |-> p]

\* trie.Add without "t.value = val".
AddDropValue(h, key, val) ==
    IF key = <<>> THEN [heap |-> h, res |-> ErrResult(emptyKey)]
    ELSE LET w == addWalk(h, Root, key, 0)
         IN  IF w.heap[w.branch].validLeaf
             THEN [heap |-> w.heap, res |-> ErrResult(duplicateKey)]
             ELSE [heap |-> [w.heap EXCEPT ![w.branch].validLeaf = TRUE],
                   res |-> ErrResult(NoError)]

\* trie.Add with the value stored before the validLeaf test.
AddOverwrite(h, key, val) ==
    IF key = <<>> THEN [heap |-> h, res |-> ErrResult(emptyKey)]
    ELSE LET w == addWalk(h, Root, key, 0)
             set == [w.heap EXCEPT ![w.branch].value = val]
         IN  IF w.heap[w.branch].validLeaf
             THEN [heap |-> set, res |-> ErrResult(duplicateKey)]
             ELSE [heap |-> [set EXCEPT ![w.branch].validLeaf = TRUE],
                   res |-> ErrResult(NoError)]

\* trie.Add without the test for the empty key.
AddNoEmptyCheck(h, key, val) ==
    LET w == addWalk(h, Root, key, 0)
    IN  IF w.heap[w.branch].validLeaf
        THEN [heap |-> w.heap, res |-> ErrResult(duplicateKey)]
        ELSE [heap |-> [w.heap EXCEPT ![w.branch].validLeaf = TRUE,
                                      ![w.branch].value = val],
              res |-> ErrResult(NoError)]

\* trie.Add: the heap and the error it returns.
Add(h, key, val) ==
    IF key = <<>> THEN [heap |-> h, res |-> ErrResult(emptyKey)]
    ELSE LET w == addWalk(h, Root, key, 0)
         IN  IF w.heap[w.branch].validLeaf
             THEN [heap |-> w.heap, res |-> ErrResult(duplicateKey)]
             ELSE [heap |-> [w.heap EXCEPT ![w.branch].validLeaf = TRUE,
                                           ![w.branch].value = val],
                   res |-> ErrResult(NoError)]

\* trie.Get
Get(h, key) ==
    IF key = <<>> THEN GetResult(Nil, FALSE)
    ELSE LET p == walk(h, Root, key, 0)
         IN  IF p # NilPtr /\ h[p].validLeaf
             THEN GetResult(h[p].value, TRUE)
             ELSE GetResult(Nil, FALSE)

\* The loop of trie.Search over the stack of (index, leaf) frames; tip is
\* len(stack)-1 throughout.
RECURSIVE searchLoop(_, _, _)
searchLoop(h, stack, results) ==
    LET tip == Len(stack) - 1 IN
    IF tip < 0 THEN results
    ELSE LET top == At(stack, tip)
             index == top.index + 1
             leaf == h[top.leaf]
         IN  IF index >= Len(leaf.children)
             THEN searchLoop(h, Prefix(stack, tip),
                             IF leaf.validLeaf THEN Append(results, leaf.value)
                             ELSE results)
             ELSE LET next == At(leaf.children, index).branch
                      st == [stack EXCEPT ![tip + 1].index = index]
                  IN  IF Len(h[next].children) > 0
                      THEN searchLoop(h, Append(st, [index |-> -1, leaf |-> next]),
                                      results)
                      ELSE searchLoop(h, st, Append(results, h[next].value))

\* trie.Search without the return for a prefix that leads nowhere: the walk
\* falls back to the root.
SearchIgnoreMiss(h, key) ==
    LET p == walk(h, Root, key, 0)
    IN  SearchResult(searchLoop(h, <<[index |-> -1,
                                      leaf |-> IF p = NilPtr THEN Root ELSE p]>>, <<>>))

\* trie.Search with the first frame at index 0: the first child is skipped.
SearchSkipFirst(h, key) ==
    LET p == walk(h, Root, key, 0)
    IN  IF p = NilPtr THEN SearchResult(<<>>)
        ELSE SearchResult(searchLoop(h, <<[index |-> 0, leaf |-> p]>>, <<>>))

\* trie.Search
Search(h, key) ==
    LET p == walk(h, Root, key, 0)
    IN  IF p = NilPtr THEN SearchResult(<<>>)
        ELSE SearchResult(searchLoop(h, <<[index |-> -1, leaf |-> p]>>, <<>>))

\* The first loop of trie.Remove: the stack of the nodes walked and the node
\* the key leads to (or nil).
RECURSIVE removeWalk(_, _, _, _, _)
removeWalk(h, p, key, i, stack) ==
    IF i < Len(key) /\ p # NilPtr
    THEN removeWalk(h, getChildBranch(h, p, At(key, i)), key, i + 1, Append(stack, p))
    ELSE [stack |-> stack, branch |-> p]

\* trie.Remove without its compaction loop.
chopKeepDead(h, stack, tip) == h

\* The compaction of trie.Remove as an "if" in place of the "for": at most
\* one node is pruned.
chopOnce(h, stack, tip) ==
    IF tip > 0
    THEN IF h[At(stack, tip)].validLeaf \/ Len(h[At(stack, tip)].children) > 0
         THEN h
         ELSE LET trim == At(stack, tip - 1)
              IN  IF Len(h[trim].children) = 1
                  THEN [h EXCEPT ![trim].children = <<>>]
                  ELSE removeChild(h, trim, At(stack, tip))
    ELSE h

\* The compaction loop of trie.Remove.
RECURSIVE chop(_, _, _)
chop(h, stack, tip) ==
    IF tip > 0
    THEN IF h[At(stack, tip)].validLeaf \/ Len(h[At(stack, tip)].children) > 0
         THEN h
         ELSE LET trim == At(stack, tip - 1)
              IN  chop(IF Len(h[trim].children) = 1
                       THEN [h EXCEPT ![trim].children = <<>>]
                       ELSE removeChild(h, trim, At(stack, tip)),
                       stack, tip - 1)
    ELSE h

\* trie.Remove without "stack[tip].validLeaf = false".
RemoveKeepLeaf(h, key) ==
    LET w == removeWalk(h, Root, key, 0, <<>>)
    IN  IF w.branch = NilPtr \/ ~h[w.branch].validLeaf
        THEN [heap |-> h, res |-> ErrResult(notFound)]
        ELSE LET stack == Append(w.stack, w.branch)
                 tip == Len(key)
                 cleared == [h EXCEPT ![At(stack, tip)].value = Nil]
             IN  [heap |-> Collect(chop(cleared, stack, tip)),
                  res |-> ErrResult(NoError)]

\* trie.Remove without "stack[tip].value = nil".
RemoveKeepValue(h, key) ==
    LET w == removeWalk(h, Root, key, 0, <<>>)
    IN  IF w.branch = NilPtr \/ ~h[w.branch].validLeaf
        THEN [heap |-> h, res |-> ErrResult(notFound)]
        ELSE LET stack == Append(w.stack, w.branch)
                 tip == Len(key)
                 cleared == [h EXCEPT ![At(stack, tip)].validLeaf = FALSE]
             IN  [heap |-> Collect(chop(cleared, stack, tip)),
                  res |-> ErrResult(NoError)]

\* trie.Remove with the notFound error built and dropped.
RemoveSwallow(h, key) ==
    LET w == removeWalk(h, Root, key, 0, <<>>)
    IN  IF w.branch = NilPtr \/ ~h[w.branch].validLeaf
        THEN [heap |-> h, res |-> ErrResult(NoError)]
        ELSE LET stack == Append(w.stack, w.branch)
                 tip == Len(key)
                 cleared == [h EXCEPT ![At(stack, tip)].value = Nil,
                                      ![At(stack, tip)].validLeaf = FALSE]
             IN  [heap |-> Collect(chop(cleared, stack, tip)),
                  res |-> ErrResult(NoError)]

\* trie.Remove
Remove(h, key) ==
    LET w == removeWalk(h, Root, key, 0, <<>>)
    IN  IF w.branch = NilPtr \/ ~h[w.branch].validLeaf
        THEN [heap |-> h, res |-> ErrResult(notFound)]
        ELSE LET stack == Append(w.stack, w.branch)
                 tip == Len(key)
                 cleared == [h EXCEPT ![At(stack, tip)].value = Nil,
                                      ![At(stack, tip)].validLeaf = FALSE]
             IN  [heap |-> Collect(chop(cleared, stack, tip)),
                  res |-> ErrResult(NoError)]

\* trie.Update with the value stored before the validLeaf test.
UpdateUnchecked(h, key, val) ==
    IF key = <<>> THEN [heap |-> h, res |-> ErrResult(emptyKey)]
    ELSE LET p == walk(h, Root, key, 0)
         IN  IF p = NilPtr THEN [heap |-> h, res |-> ErrResult(notFound)]
             ELSE [heap |-> [h EXCEPT ![p].value = val],
                   res |-> ErrResult(IF h[p].validLeaf THEN NoError ELSE notFound)]

\* trie.Update walking with getOrAddChildBranch, as Add does.
UpdateAddsPath(h, key, val) ==
    IF key = <<>> THEN [heap |-> h, res |-> ErrResult(emptyKey)]
    ELSE LET w == addWalk(h, Root, key, 0)
         IN  IF ~w.heap[w.branch].validLeaf
             THEN [heap |-> w.heap, res |-> ErrResult(notFound)]
             ELSE [heap |-> [w.heap EXCEPT ![w.branch].value = val],
                   res |-> ErrResult(NoError)]

\* trie.Update without "t.value = val".
UpdateNoStore(h, key, val) ==
    IF key = <<>> THEN [heap |-> h, res |-> ErrResult(emptyKey)]
    ELSE LET p == walk(h, Root, key, 0)
         IN  IF p = NilPtr \/ ~h[p].validLeaf
             THEN [heap |-> h, res |-> ErrResult(notFound)]
             ELSE [heap |-> h, res |-> ErrResult(NoError)]

\* trie.Update
Update(h, key, val) ==
    IF key = <<>> THEN [heap |-> h, res |-> ErrResult(emptyKey)]
    ELSE LET p == walk(h, Root, key, 0)
         IN  IF p = NilPtr \/ ~h[p].validLeaf
             THEN [heap |-> h, res |-> ErrResult(notFound)]
             ELSE [heap |-> [h EXCEPT ![p].value = val], res |-> ErrResult(NoError)]

\* ----------------------------------------------- trie.go, second listing
\* trie.Add: getChild, and a fresh child appended where there is none.
RECURSIVE fAddWalk(_, _, _)
fAddWalk(h, root, key) ==
    IF Len(key) > 0
    THEN LET i == getChild(h, root, key[1])
         IN  IF i = -1
             THEN LET c == Append(root, key[1])
                      h2 == [q \in DOMAIN h \cup {c} |->
                               IF q = c THEN New
                               ELSE IF q = root
                                    THEN [h[root] EXCEPT !.children =
                                            Append(@, [letter |-> key[1], branch |-> c])]
                                    ELSE h[q]]
                  IN  fAddWalk(h2, c, Rest(key))
             ELSE fAddWalk(h, At(h[root].children, i).branch, Rest(key))
    ELSE [heap |-> h, root |-> root]

fAdd(h, key, val) ==
    IF key = <<>> THEN [heap |-> h, res |-> ErrResult(emptyKey)]
    ELSE LET w == fAddWalk(h, Root, key)
         IN  IF w.heap[w.root].validLeaf
             THEN [heap |-> w.heap, res |-> ErrResult(duplicateKey)]
             ELSE [heap |-> [w.heap EXCEPT ![w.root].validLeaf = TRUE,
                                           ![w.root].value = val],
                   res |-> ErrResult(NoError)]

\* for len(key) > 0 { i := root.getChild(key[0]); if i == -1 { return ... } ... }:
\* the node the key leads to, or nil where the code returns early.
RECURSIVE fWalk(_, _, _)
fWalk(h, root, key) ==
    IF Len(key) > 0
    THEN LET i == getChild(h, root, key[1])
         IN  IF i = -1 THEN NilPtr
             ELSE fWalk(h, At(h[root].children, i).branch, Rest(key))
    ELSE root

\* trie.Get
fGet(h, key) ==
    IF key = <<>> THEN GetResult(Nil, FALSE)
    ELSE LET root == fWalk(h, Root, key)
         IN  IF root = NilPtr THEN GetResult(Nil, FALSE)
             ELSE IF h[root].validLeaf THEN GetResult(h[root].value, TRUE)
             ELSE GetResult(Nil, FALSE)

\* The loop of trie.Search: every child is pushed as a frame of its own.
RECURSIVE fSearchLoop(_, _, _)
fSearchLoop(h, branch, results) ==
    LET tip == Len(branch) - 1 IN
    IF tip < 0 THEN results
    ELSE LET index == At(branch, tip).index + 1
             leaf == h[At(branch, tip).leaf]
         IN  IF index >= Len(leaf.children)
             THEN fSearchLoop(h, Prefix(branch, tip),
                              IF leaf.validLeaf THEN Append(results, leaf.value)
                              ELSE results)
             ELSE fSearchLoop(h,
                      Append([branch EXCEPT ![tip + 1].index = index],
                             [index |-> -1, leaf |-> At(leaf.children, index).branch]),
                      results)

\* trie.Search
fSearch(h, key) ==
    LET root == fWalk(h, Root, key)
    IN  IF root = NilPtr THEN SearchResult(<<>>)
        ELSE SearchResult(fSearchLoop(h, <<[index |-> -1, leaf |-> root]>>, <<>>))

\* The first loop of trie.Remove: the frames (index, leaf) of the walk, the
\* node reached as the last frame; found is FALSE where the code returns
\* notFound from inside the loop.
RECURSIVE fRemoveWalk(_, _, _, _)
fRemoveWalk(h, root, key, branch) ==
    IF Len(key) > 0
    THEN LET i == getChild(h, root, key[1])
         IN  IF i = -1 THEN [found |-> FALSE, branch |-> branch]
             ELSE LET b1 == Append(branch, [index |-> i, leaf |-> root])
                      next == At(h[root].children, i).branch
                      b2 == IF Len(Rest(key)) = 0
                            THEN Append(b1, [index |-> 0, leaf |-> next])
                            ELSE b1
                  IN  fRemoveWalk(h, next, Rest(key), b2)
    ELSE [found |-> TRUE, branch |-> branch]

\* The compaction loop without the validLeaf test: a childless node is
\* pruned even when it is terminal.
RECURSIVE fChopIgnoreLeaf(_, _, _)
fChopIgnoreLeaf(h, branch, tip) ==
    IF tip > 0
    THEN LET leaf == h[At(branch, tip).leaf]
         IN  IF Len(leaf.children) = 0
             THEN LET trim == At(branch, tip - 1)
                      ch == h[trim.leaf].children
                      last == Len(ch) - 1
                      moved == [ch EXCEPT ![trim.index + 1] = At(ch, last)]
                      niled == [moved EXCEPT ![last + 1].branch = NilPtr]
                  IN  fChopIgnoreLeaf([h EXCEPT ![trim.leaf].children = Prefix(niled, last)],
                                      branch, tip - 1)
             ELSE h
    ELSE h

\* The compaction loop of trie.Remove: the dead node's edge is overwritten by
\* its parent's last edge, and the last edge is dropped.
RECURSIVE fChop(_, _, _)
fChop(h, branch, tip) ==
    IF tip > 0
    THEN LET leaf == h[At(branch, tip).leaf]
         IN  IF ~leaf.validLeaf /\ Len(leaf.children) = 0
             THEN LET trim == At(branch, tip - 1)
                      ch == h[trim.leaf].children
                      last == Len(ch) - 1
                      moved == [ch EXCEPT ![trim.index + 1] = At(ch, last)]
                      niled == [moved EXCEPT ![last + 1].branch = NilPtr]
                  IN  fChop([h EXCEPT ![trim.leaf].children = Prefix(niled, last)],
                            branch, tip - 1)
             ELSE h
    ELSE h

\* trie.Remove.  branch[tip] with tip = -1 (the empty key) is an index out of
\* range: the call panics before it changes anything.
fRemove(h, key) ==
    LET w == fRemoveWalk(h, Root, key, <<>>)
        tip == Len(w.branch) - 1
    IN  IF ~w.found THEN [heap |-> h, res |-> ErrResult(notFound)]
        ELSE IF tip < 0 THEN [heap |-> h, res |-> ErrResult(Panic)]
        ELSE IF ~h[At(w.branch, tip).leaf].validLeaf
             THEN [heap |-> h, res |-> ErrResult(notFound)]
        ELSE LET p == At(w.branch, tip).leaf
                 cleared == [h EXCEPT ![p].value = Nil, ![p].validLeaf = FALSE]
             IN  [heap |-> Collect(fChop(cleared, w.branch, tip)),
                  res |-> ErrResult(NoError)]

\* trie.Update as an upsert: a key that is not found is added.
fUpdateInsert(h, key, val) ==
    IF key = <<>> THEN [heap |-> h, res |-> ErrResult(emptyKey)]
    ELSE LET root == fWalk(h, Root, key)
         IN  IF root = NilPtr THEN [heap |-> fAdd(h, key, val).heap, res |-> ErrResult(notFound)]
             ELSE IF ~h[root].validLeaf
                  THEN [heap |-> fAdd(h, key, val).heap, res |-> ErrResult(notFound)]
             ELSE [heap |-> [h EXCEPT ![root].value = val], res |-> ErrResult(NoError)]

\* trie.Update
fUpdate(h, key, val) ==
    IF key = <<>> THEN [heap |-> h, res |-> ErrResult(emptyKey)]
    ELSE LET root == fWalk(h, Root, key)
         IN  IF root = NilPtr THEN [heap |-> h, res |-> ErrResult(notFound)]
             ELSE IF ~h[root].validLeaf THEN [heap |-> h, res |-> ErrResult(notFound)]
             ELSE [heap |-> [h EXCEPT ![root].value = val], res |-> ErrResult(NoError)]

\* ------------------------------------------------------ iter_alt_trie.go
\* &iterTrie{nil, false, nil}
Iter == [children |-> <<>>, value |-> Nil, validLeaf |-> FALSE]

\* iterTrie.getChild
iterGetChild(h, p, r) ==
    LET hit == {i \in 0..(Len(h[p].children) - 1) : At(h[p].children, i).letter = r}
    IN  IF hit = {} THEN -1 ELSE Min(hit)

\* h with node c allocated as n and appended to root's children under letter r.
iterAppend(h, root, r, c, n) ==
    [q \in DOMAIN h \cup {c} |->
        IF q = c THEN n
        ELSE IF q = root
             THEN [h[root] EXCEPT !.children = Append(@, [letter |-> r, branch |-> c])]
             ELSE h[q]]

\* iterTrie.add, r non-empty: the heap, and whether the key exists already.
RECURSIVE iterAddLoop(_, _, _, _)
iterAddLoop(h, root, r, val) ==
    LET i == iterGetChild(h, root, r[1]) IN
    IF Len(r) > 1
    THEN IF i = -1
         THEN LET h2 == iterAppend(h, root, r[1], Append(root, r[1]), Iter)
                  j == Len(h2[root].children) - 1
              IN  iterAddLoop(h2, At(h2[root].children, j).branch, Rest(r), val)
         ELSE iterAddLoop(h, At(h[root].children, i).branch, Rest(r), val)
    ELSE IF i = -1
         THEN [heap |-> iterAppend(h, root, r[1], Append(root, r[1]),
                                   [children |-> <<>>, value |-> val, validLeaf |-> TRUE]),
               exists |-> FALSE]
         ELSE LET leaf == At(h[root].children, i).branch
              IN  IF h[leaf].validLeaf THEN [heap |-> h, exists |-> TRUE]
                  ELSE [heap |-> [h EXCEPT ![leaf].validLeaf = TRUE, ![leaf].value = val],
                        exists |-> FALSE]

\* iterTrie.Add: errors.New("key empty"), errors.New("key already exists").
iterAdd(h, key, val) ==
    IF Len(key) = 0 THEN [heap |-> h, res |-> ErrResult(emptyKey)]
    ELSE LET a == iterAddLoop(h, Root, key, val)
         IN  [heap |-> a.heap,
              res |-> ErrResult(IF a.exists THEN duplicateKey ELSE NoError)]

\* iterTrie.get, r non-empty: the value of the node the key leads to, with
\* ok = true whenever that node exists.
RECURSIVE iterGetLoop(_, _, _)
iterGetLoop(h, root, r) ==
    LET i == iterGetChild(h, root, r[1]) IN
    IF Len(r) > 1
    THEN IF i = -1 THEN GetResult(Nil, FALSE)
         ELSE iterGetLoop(h, At(h[root].children, i).branch, Rest(r))
    ELSE IF i = -1 THEN GetResult(Nil, FALSE)
         ELSE GetResult(h[At(h[root].children, i).branch].value, TRUE)

\* iterTrie.Get
iterGet(h, key) ==
    IF Len(key) = 0 THEN GetResult(Nil, FALSE) ELSE iterGetLoop(h, Root, key)

\* The walk of iterTrie.search and iterTrie.remove down the key.
RECURSIVE iterWalk(_, _, _)
iterWalk(h, root, key) ==
    IF Len(key) > 0
    THEN LET next == iterGetChild(h, root, key[1])
         IN  IF next = -1 THEN NilPtr
             ELSE iterWalk(h, At(h[root].children, next).branch, Rest(key))
    ELSE root

\* The stack loop of iterTrie.search.
RECURSIVE iterSearchLoop(_, _, _)
iterSearchLoop(h, branch, results) ==
    LET tip == Len(branch) - 1 IN
    IF tip < 0 THEN results
    ELSE LET index == At(branch, tip).index + 1
             leaf == h[At(branch, tip).leaf]
         IN  IF index >= Len(leaf.children)
             THEN iterSearchLoop(h, Prefix(branch, tip),
                                 IF leaf.validLeaf THEN Append(results, leaf.value)
                                 ELSE results)
             ELSE iterSearchLoop(h,
                      Append([branch EXCEPT ![tip + 1].index = index],
                             [index |-> -1, leaf |-> At(leaf.children, index).branch]),
                      results)

\* iterTrie.Search
iterSearch(h, key) ==
    LET root == iterWalk(h, Root, key)
    IN  IF root = NilPtr THEN SearchResult(<<>>)
        ELSE SearchResult(iterSearchLoop(h, <<[index |-> -1, leaf |-> root]>>, <<>>))

\* The first loop of iterTrie.remove.
RECURSIVE iterRemoveWalk(_, _, _, _)
iterRemoveWalk(h, root, key, branch) ==
    IF Len(key) > 0
    THEN LET i == iterGetChild(h, root, key[1])
         IN  IF i = -1 THEN [found |-> FALSE, branch |-> branch]
             ELSE LET b1 == Append(branch, [index |-> i, leaf |-> root])
                      next == At(h[root].children, i).branch
                      b2 == IF Len(Rest(key)) = 0
                            THEN Append(b1, [index |-> 0, leaf |-> next])
                            ELSE b1
                  IN  iterRemoveWalk(h, next, Rest(key), b2)
    ELSE [found |-> TRUE, branch |-> branch]

\* The compaction loop of iterTrie.remove.
RECURSIVE iterChop(_, _, _)
iterChop(h, branch, tip) ==
    IF tip > 0
    THEN LET leaf == h[At(branch, tip).leaf]
         IN  IF ~leaf.validLeaf /\ Len(leaf.children) = 0
             THEN LET trim == At(branch, tip - 1)
                      ch == h[trim.leaf].children
                      last == Len(ch) - 1
                      moved == [ch EXCEPT ![trim.index + 1] = At(ch, last)]
                      niled == [moved EXCEPT ![last + 1].branch = NilPtr]
                  IN  iterChop([h EXCEPT ![trim.leaf].children = Prefix(niled, last)],
                               branch, tip - 1)
             ELSE h
    ELSE h

\* iterTrie.Remove: errors.New("key not in trie") when remove returns false.
\* branch[tip] with tip = -1 (the empty key) panics before anything changes.
iterRemove(h, key) ==
    LET w == iterRemoveWalk(h, Root, key, <<>>)
        tip == Len(w.branch) - 1
    IN  IF ~w.found THEN [heap |-> h, res |-> ErrResult(notFound)]
        ELSE IF tip < 0 THEN [heap |-> h, res |-> ErrResult(Panic)]
        ELSE IF ~h[At(w.branch, tip).leaf].validLeaf
             THEN [heap |-> h, res |-> ErrResult(notFound)]
        ELSE LET p == At(w.branch, tip).leaf
                 cleared == [h EXCEPT ![p].value = Nil, ![p].validLeaf = FALSE]
             IN  [heap |-> Collect(iterChop(cleared, w.branch, tip)),
                  res |-> ErrResult(NoError)]

\* iterTrie.update, r non-empty: the heap, and whether the key was found.
RECURSIVE iterUpdateLoop(_, _, _, _)
iterUpdateLoop(h, root, r, val) ==
    LET i == iterGetChild(h, root, r[1]) IN
    IF Len(r) > 1
    THEN IF i = -1 THEN [heap |-> h, ok |-> FALSE]
         ELSE iterUpdateLoop(h, At(h[root].children, i).branch, Rest(r), val)
    ELSE IF i = -1 THEN [heap |-> h, ok |-> FALSE]
         ELSE LET leaf == At(h[root].children, i).branch
              IN  IF ~h[leaf].validLeaf THEN [heap |-> h, ok |-> FALSE]
                  ELSE [heap |-> [h EXCEPT ![leaf].value = val], ok |-> TRUE]

\* iterTrie.Update: errors.New("key is not in trie") when update returns false.
\* r[0] of the empty key is an index out of range: the call panics.
iterUpdate(h, key, val) ==
    IF Len(key) = 0 THEN [heap |-> h, res |-> ErrResult(Panic)]
    ELSE LET u == iterUpdateLoop(h, Root, key, val)
         IN  [heap |-> u.heap, res |-> ErrResult(IF u.ok THEN NoError ELSE notFound)]

\* ------------------------------------------------------- unnamed/part_000
\* The map-keyed Trie.  A node holds its children as a map from letter to
\* child; the child under letter r of the node at pointer p is at Append(p, r),
\* so the map is modelled by the set of its keys.
\* The rune ' ', the value New() gives the root.
Space == 32

\* New(): Trie{' ', false, make(map[rune]Trie)}
mapNew == [children |-> {}, value |-> Space, validLeaf |-> FALSE]

\* t.children[r] = n, for the node t at pointer p.
mapPut(h, p, r, n) ==
    [q \in DOMAIN h \cup {Append(p, r)} |->
        IF q = Append(p, r) THEN n
        ELSE IF q = p THEN [h[p] EXCEPT !.children = @ \cup {r}]
        ELSE h[q]]

\* The pointers the node at p reaches through the maps.
RECURSIVE mapReach(_, _)
mapReach(h, p) == {p} \cup UNION {mapReach(h, Append(p, r)) : r \in h[p].children}

\* delete(t.children, r), for the node t at pointer p; what the root no
\* longer reaches is freed.
mapDelete(h, p, r) ==
    LET h2 == [h EXCEPT ![p].children = @ \ {r}]
    IN  [q \in mapReach(h2, Root) |-> h2[q]]

\* Trie.add: the heap, and whether the key exists already.
RECURSIVE mapAddRec(_, _, _, _)
mapAddRec(h, p, r, val) ==
    IF Len(r) = 0 THEN [heap |-> h, exists |-> FALSE]
    ELSE LET c == Append(p, r[1]) IN
         IF r[1] \in h[p].children
         THEN IF Len(r) > 1 THEN mapAddRec(h, c, Rest(r), val)
              ELSE IF h[c].validLeaf THEN [heap |-> h, exists |-> TRUE]
              ELSE [heap |-> [h EXCEPT ![c].validLeaf = TRUE, ![c].value = val],
                    exists |-> FALSE]
         ELSE IF Len(r) > 1
              THEN mapAddRec(mapPut(h, p, r[1],
                                    [children |-> {}, value |-> Nil, validLeaf |-> FALSE]),
                             c, Rest(r), val)
              ELSE [heap |-> mapPut(h, p, r[1],
                                    [children |-> {}, value |-> val, validLeaf |-> TRUE]),
                    exists |-> FALSE]

\* Trie.Add: errors.New("Key already exists.") when add returns true; the
\* empty key is not an error.
mapAdd(h, key, val) ==
    LET a == mapAddRec(h, Root, key, val)
    IN  [heap |-> a.heap, res |-> ErrResult(IF a.exists THEN duplicateKey ELSE NoError)]

\* Trie.get
RECURSIVE mapGetRec(_, _, _)
mapGetRec(h, p, key) ==
    IF Len(key) = 0 THEN GetResult(h[p].value, h[p].validLeaf)
    ELSE IF key[1] \in h[p].children THEN mapGetRec(h, Append(p, key[1]), Rest(key))
    ELSE GetResult(Nil, FALSE)

\* Trie.Get
mapGet(h, key) ==
    IF Len(key) = 0 THEN GetResult(Nil, FALSE) ELSE mapGetRec(h, Root, key)

\* Trie.remove, key non-empty: the heap, and the boolean it returns.  child is
\* a copy made before the recursive call: its flag is the one of h.
RECURSIVE mapRemoveRec(_, _, _)
mapRemoveRec(h, p, key) ==
    LET c == Append(p, key[1]) IN
    IF Len(key) = 1
    THEN IF key[1] \in h[p].children
         THEN IF h[c].children = {}
              THEN [heap |-> mapDelete(h, p, key[1]), ret |-> TRUE]
              ELSE [heap |-> [h EXCEPT ![c].validLeaf = FALSE, ![c].value = Nil],
                    ret |-> TRUE]
         ELSE [heap |-> h, ret |-> FALSE]
    ELSE IF key[1] \in h[p].children
         THEN LET r == mapRemoveRec(h, c, Rest(key))
              IN  [heap |-> IF ~h[c].validLeaf /\ r.heap[c].children = {}
                            THEN mapDelete(r.heap, p, key[1])
                            ELSE r.heap,
                   ret |-> r.ret]
         ELSE [heap |-> h, ret |-> FALSE]

\* Trie.Remove: the error built when remove returns false is dropped, nil is
\* returned whatever happened.  key[0] of the empty key panics.
mapRemove(h, key) ==
    IF Len(key) = 0 THEN [heap |-> h, res |-> ErrResult(Panic)]
    ELSE [heap |-> mapRemoveRec(h, Root, key).heap, res |-> ErrResult(NoError)]

\* ------------------------------------------------- trie_test.go, altTrie
\* Alt(): &altTrie{nil, false, nil}
Alt == [children |-> <<>>, value |-> Nil, validLeaf |-> FALSE]

\* altTrie.getChild
altGetChild(h, p, r) ==
    LET hit == {i \in 0..(Len(h[p].children) - 1) : At(h[p].children, i).letter = r}
    IN  IF hit = {} THEN -1 ELSE Min(hit)

\* append(t.children[:i], t.children[i+1:]...), for the node t at pointer p;
\* what the root no longer reaches is freed.
altCut(h, p, i) ==
    LET ch == h[p].children
    IN  Collect([h EXCEPT ![p].children = Prefix(ch, i) \o SubSeq(ch, i + 2, Len(ch))])

\* altTrie.add: the heap, and whether the key exists already.
RECURSIVE altAddRec(_, _, _, _)
altAddRec(h, p, r, val) ==
    IF Len(r) = 0 THEN [heap |-> h, exists |-> FALSE]
    ELSE LET i == altGetChild(h, p, r[1])
             c == Append(p, r[1])
         IN  IF i # -1
             THEN LET child == At(h[p].children, i).branch
                  IN  IF Len(r) > 1 THEN altAddRec(h, child, Rest(r), val)
                      ELSE IF h[child].validLeaf THEN [heap |-> h, exists |-> TRUE]
                      ELSE [heap |-> [h EXCEPT ![child].validLeaf = TRUE,
                                               ![child].value = val],
                            exists |-> FALSE]
             ELSE IF Len(r) > 1
                  THEN altAddRec(iterAppend(h, p, r[1], c, Alt), c, Rest(r), val)
                  ELSE [heap |-> iterAppend(h, p, r[1], c,
                                     [children |-> <<>>, value |-> val, validLeaf |-> TRUE]),
                        exists |-> FALSE]

\* altTrie.Add: errors.New("key already exists") when add returns true; the
\* empty key is not an error.
altAdd(h, key, val) ==
    LET a == altAddRec(h, Root, key, val)
    IN  [heap |-> a.heap, res |-> ErrResult(IF a.exists THEN duplicateKey ELSE NoError)]

\* altTrie.get
RECURSIVE altGetRec(_, _, _)
altGetRec(h, p, key) ==
    IF Len(key) = 0 THEN GetResult(h[p].value, h[p].validLeaf)
    ELSE LET i == altGetChild(h, p, key[1])
         IN  IF i # -1 THEN altGetRec(h, At(h[p].children, i).branch, Rest(key))
             ELSE GetResult(Nil, FALSE)

\* altTrie.Get
altGet(h, key) ==
    IF Len(key) = 0 THEN GetResult(Nil, FALSE) ELSE altGetRec(h, Root, key)

\* altTrie.remove, key non-empty: the heap, and the boolean it returns.
RECURSIVE altRemoveRec(_, _, _)
altRemoveRec(h, p, key) ==
    LET i == altGetChild(h, p, key[1]) IN
    IF i = -1 THEN [heap |-> h, ret |-> FALSE]
    ELSE LET child == At(h[p].children, i).branch IN
         IF Len(key) = 1
         THEN IF Len(h[child].children) = 0
              THEN [heap |-> altCut(h, p, i), ret |-> TRUE]
              ELSE [heap |-> [h EXCEPT ![child].validLeaf = FALSE, ![child].value = Nil],
                    ret |-> TRUE]
         ELSE LET r == altRemoveRec(h, child, Rest(key))
              IN  [heap |-> IF ~r.heap[child].validLeaf /\ Len(r.heap[child].children) = 0
                            THEN altCut(r.heap, p, i)
                            ELSE r.heap,
                   ret |-> r.ret]

\* altTrie.Remove: the error built when remove returns false is dropped, nil
\* is returned whatever happened.  key[0] of the empty key panics.
altRemove(h, key) ==
    IF Len(key) = 0 THEN [heap |-> h, res |-> ErrResult(Panic)]
    ELSE [heap |-> altRemoveRec(h, Root, key).heap, res |-> ErrResult(NoError)]

\* ------------------------------------------------------------ the system
\* t, ft, it: the heaps of the three encodings, driven side by side with the
\* same calls.  call: the last call made.  res: what each encoding returned.
\* stored: the abstract map (key -> value) that the same calls build, kept
\* next to the tries as the reference for "currently stored".
\* mt, at: the heaps of the map-keyed Trie and of altTrie (SpecEquiv).
\* run: the call in progress when calls are taken loop pass by loop pass
\* (SpecSteps); idle throughout Spec, where every call is one step.
VARIABLES t, ft, it, call, res, stored, mt, at, run

vars == <<t, ft, it, call, res, stored, mt, at, run>>

Call(op, key, val) == [op |-> op, key |-> key, val |-> val]

\* No call in progress.  The fields of a call in progress: pc, the loop it is
\* in; op, key, val, the call; i, cur, the index and the node of the walk down
\* the key; stack, tip, results, the locals of Search and Remove; res, what the
\* call returns; root, the node a Search starts from.  For the properties:
\* did and node, what the last pass of a Search loop did and to which node;
\* visited, the nodes a Search has come to; emitted, the nodes whose value it
\* has appended; h0, the heap when the call began.
Idle ==
    [pc |-> "idle", op |-> "none", key |-> <<>>, val |-> Nil, i |-> 0, cur |-> Root,
     stack |-> <<>>, tip |-> 0, results |-> <<>>, res |-> ErrResult(NoError),
     root |-> NilPtr, did |-> "none", node |-> NilPtr, visited |-> <<>>,
     emitted |-> <<>>, h0 |-> NewHeap]

\* The abstract map after each of the mutating calls.
MapAdd(m, key, val) ==
    IF key = <<>> \/ key \in DOMAIN m THEN m
    ELSE [k \in DOMAIN m \cup {key} |-> IF k = key THEN val ELSE m[k]]
MapRemove(m, key) == [k \in DOMAIN m \ {key} |-> m[k]]
MapUpdate(m, key, val) == IF key \in DOMAIN m THEN [m EXCEPT ![key] = val] ELSE m
EmptyMap == [k \in {} |-> Nil]

\* New() / Iter(): three empty containers, no call made yet.
Init ==
    /\ t = NewHeap
    /\ ft = NewHeap
    /\ it = [p \in {Root} |-> Iter]
    /\ call = Call("New", <<>>, Nil)
    /\ res = [t |-> ErrResult(NoError), ft |-> ErrResult(NoError), it |-> ErrResult(NoError)]
    /\ stored = EmptyMap
    /\ mt = [p \in {Root} |-> mapNew]
    /\ at = [p \in {Root} |-> Alt]
    /\ run = Idle

\* Add(key, val) on each encoding; at most MaxStored keys are stored at once.
DoAdd ==
    \E key \in Keys, val \in Values :
        LET a == Add(t, key, val)
            fa == fAdd(ft, key, val)
            ia == iterAdd(it, key, val)
        IN  /\ Cardinality(DOMAIN MapAdd(stored, key, val)) <= MaxStored
            /\ call' = Call("Add", key, val)
            /\ t' = a.heap
            /\ ft' = fa.heap
            /\ it' = ia.heap
            /\ res' = [t |-> a.res, ft |-> fa.res, it |-> ia.res]
            /\ stored' = MapAdd(stored, key, val)
            /\ UNCHANGED <<mt, at, run>>

\* Get(key) on each encoding.
DoGet ==
    \E key \in Keys :
        /\ call' = Call("Get", key, Nil)
        /\ res' = [t |-> Get(t, key), ft |-> fGet(ft, key), it |-> iterGet(it, key)]
        /\ UNCHANGED <<t, ft, it, stored, mt, at, run>>

\* Search(key) on each encoding.
DoSearch ==
    \E key \in Keys :
        /\ call' = Call("Search", key, Nil)
        /\ res' = [t |-> Search(t, key), ft |-> fSearch(ft, key), it |-> iterSearch(it, key)]
        /\ UNCHANGED <<t, ft, it, stored, mt, at, run>>

\* Remove(key) on each encoding.
DoRemove ==
    \E key \in Keys :
        LET r == Remove(t, key)
            fr == fRemove(ft, key)
            ir == iterRemove(it, key)
        IN  /\ call' = Call("Remove", key, Nil)
            /\ t' = r.heap
            /\ ft' = fr.heap
            /\ it' = ir.heap
            /\ res' = [t |-> r.res, ft |-> fr.res, it |-> ir.res]
            /\ stored' = MapRemove(stored, key)
            /\ UNCHANGED <<mt, at, run>>

\* Update(key, val) on each encoding.
DoUpdate ==
    \E key \in Keys, val \in Values :
        LET u == Update(t, key, val)
            fu == fUpdate(ft, key, val)
            iu == iterUpdate(it, key, val)
        IN  /\ call' = Call("Update", key, val)
            /\ t' = u.heap
            /\ ft' = fu.heap
            /\ it' = iu.heap
            /\ res' = [t |-> u.res, ft |-> fu.res, it |-> iu.res]
            /\ stored' = MapUpdate(stored, key, val)
            /\ UNCHANGED <<mt, at, run>>

Next == DoAdd \/ DoGet \/ DoSearch \/ DoRemove \/ DoUpdate

Spec == Init /\ [][Next]_vars

\* ------------------------------------------------- the calls, pass by pass
\* The calls of the first listing of trie.go taken one loop pass at a time,
\* and the Search loop of the second listing.  A call is begun when no call
\* is in progress, runs its passes, returns (pc = "done") and is then
\* forgotten.  A mutating call is also made on ft, in one step, as it begins.
Begin(pc, op, key, val, h) ==
    [Idle EXCEPT !.pc = pc, !.op = op, !.key = key, !.val = val, !.h0 = h]
Done(r, result) == [r EXCEPT !.pc = "done", !.res = result]

\* One pass of the loop of trie.Search, tip >= 0: the stack and the results
\* after it; did tells the branch taken, node the node popped, pushed or
\* appended without a push.
searchStep(h, stack, results) ==
    LET tip == Len(stack) - 1
        index == At(stack, tip).index + 1
        leaf == At(stack, tip).leaf
        st == [stack EXCEPT ![tip + 1].index = index]
    IN  IF index >= Len(h[leaf].children)
        THEN [stack |-> Prefix(st, tip),
              results |-> IF h[leaf].validLeaf THEN Append(results, h[leaf].value)
                          ELSE results,
              did |-> "pop", node |-> leaf]
        ELSE LET next == At(h[leaf].children, index).branch
             IN  IF Len(h[next].children) > 0
                 THEN [stack |-> Append(st, [index |-> -1, leaf |-> next]),
                       results |-> results, did |-> "push", node |-> next]
                 ELSE [stack |-> st, results |-> Append(results, h[next].value),
                       did |-> "shortcut", node |-> next]

\* One pass of the Search loop of the second listing with the new frame at
\* index 0: the first child of every pushed node is skipped.
fSearchStepSkip(h, branch, results) ==
    LET tip == Len(branch) - 1
        index == At(branch, tip).index + 1
        leaf == At(branch, tip).leaf
        st == [branch EXCEPT ![tip + 1].index = index]
    IN  IF index >= Len(h[leaf].children)
        THEN [stack |-> Prefix(st, tip),
              results |-> IF h[leaf].validLeaf THEN Append(results, h[leaf].value)
                          ELSE results,
              did |-> "pop", node |-> leaf]
        ELSE [stack |-> Append(st, [index |-> 0,
                                    leaf |-> At(h[leaf].children, index).branch]),
              results |-> results, did |-> "push",
              node |-> At(h[leaf].children, index).branch]

\* One pass of the Search loop of the second listing, tip >= 0.
fSearchStep(h, branch, results) ==
    LET tip == Len(branch) - 1
        index == At(branch, tip).index + 1
        leaf == At(branch, tip).leaf
        st == [branch EXCEPT ![tip + 1].index = index]
    IN  IF index >= Len(h[leaf].children)
        THEN [stack |-> Prefix(st, tip),
              results |-> IF h[leaf].validLeaf THEN Append(results, h[leaf].value)
                          ELSE results,
              did |-> "pop", node |-> leaf]
        ELSE [stack |-> Append(st, [index |-> -1,
                                    leaf |-> At(h[leaf].children, index).branch]),
              results |-> results, did |-> "push",
              node |-> At(h[leaf].children, index).branch]

\* One pass of the compaction loop that always breaks: nothing is pruned.
chopStepKeepDead(h, stack, tip) == [heap |-> h, tip |-> tip, brk |-> TRUE]

\* One pass of the compaction loop without "tip--".
chopStepNoDec(h, stack, tip) ==
    IF h[At(stack, tip)].validLeaf \/ Len(h[At(stack, tip)].children) > 0
    THEN [heap |-> h, tip |-> tip, brk |-> TRUE]
    ELSE LET trim == At(stack, tip - 1)
         IN  [heap |-> IF Len(h[trim].children) = 1
                       THEN [h EXCEPT ![trim].children = <<>>]
                       ELSE removeChild(h, trim, At(stack, tip)),
              tip |-> tip, brk |-> FALSE]

\* One pass of the compaction loop of trie.Remove, tip > 0: the heap and tip
\* after it, and whether the pass left the loop by its break.
chopStep(h, stack, tip) ==
    IF h[At(stack, tip)].validLeaf \/ Len(h[At(stack, tip)].children) > 0
    THEN [heap |-> h, tip |-> tip, brk |-> TRUE]
    ELSE LET trim == At(stack, tip - 1)
         IN  [heap |-> IF Len(h[trim].children) = 1
                       THEN [h EXCEPT ![trim].children = <<>>]
                       ELSE removeChild(h, trim, At(stack, tip)),
              tip |-> tip - 1, brk |-> FALSE]

\* What a Search has come to and appended, after a pass that gave s.
Visited(r, s) == IF s.did = "pop" THEN r.visited ELSE Append(r.visited, s.node)
Emitted(r, s) ==
    IF Len(s.results) > Len(r.results) THEN Append(r.emitted, s.node) ELSE r.emitted

\* trie.Add begins: the empty key returns at once.
BeginAdd ==
    \E key \in Keys, val \in Values :
        /\ run.pc = "idle"
        /\ Cardinality(DOMAIN MapAdd(stored, key, val)) <= MaxStored
        /\ run' = IF key = <<>> THEN Done(Begin("Add", "Add", key, val, t), ErrResult(emptyKey))
                  ELSE Begin("Add", "Add", key, val, t)
        /\ ft' = fAdd(ft, key, val).heap
        /\ stored' = MapAdd(stored, key, val)
        /\ UNCHANGED <<t, it, call, res, mt, at>>

\* t = t.getOrAddChildBranch(key[i]); i++
AddStep ==
    /\ run.pc = "Add" /\ run.i < Len(run.key)
    /\ LET s == getOrAddChildBranch(t, run.cur, At(run.key, run.i))
       IN  /\ t' = s.heap
           /\ run' = [run EXCEPT !.cur = s.branch, !.i = @ + 1]
    /\ UNCHANGED <<ft, it, call, res, stored, mt, at>>

\* The loop is over: duplicateKey, or the value is stored.
AddReturn ==
    /\ run.pc = "Add" /\ run.i >= Len(run.key)
    /\ IF t[run.cur].validLeaf
       THEN t' = t /\ run' = Done(run, ErrResult(duplicateKey))
       ELSE /\ t' = [t EXCEPT ![run.cur].validLeaf = TRUE, ![run.cur].value = run.val]
            /\ run' = Done(run, ErrResult(NoError))
    /\ UNCHANGED <<ft, it, call, res, stored, mt, at>>

\* trie.Get begins: the empty key returns at once.
BeginGet ==
    \E key \in Keys :
        /\ run.pc = "idle"
        /\ run' = IF key = <<>> THEN Done(Begin("Get", "Get", key, Nil, t), GetResult(Nil, FALSE))
                  ELSE Begin("Get", "Get", key, Nil, t)
        /\ UNCHANGED <<t, ft, it, call, res, stored, mt, at>>

\* t = t.getChildBranch(key[i]); i++
GetStep ==
    /\ run.pc = "Get" /\ run.i < Len(run.key) /\ run.cur # NilPtr
    /\ run' = [run EXCEPT !.cur = getChildBranch(t, run.cur, At(run.key, run.i)),
                          !.i = @ + 1]
    /\ UNCHANGED <<t, ft, it, call, res, stored, mt, at>>

GetReturn ==
    /\ run.pc = "Get" /\ ~(run.i < Len(run.key) /\ run.cur # NilPtr)
    /\ run' = Done(run, IF run.cur # NilPtr /\ t[run.cur].validLeaf
                        THEN GetResult(t[run.cur].value, TRUE)
                        ELSE GetResult(Nil, FALSE))
    /\ UNCHANGED <<t, ft, it, call, res, stored, mt, at>>

\* trie.Update begins: the empty key returns at once.
BeginUpdate ==
    \E key \in Keys, val \in Values :
        /\ run.pc = "idle"
        /\ run' = IF key = <<>>
                  THEN Done(Begin("Update", "Update", key, val, t), ErrResult(emptyKey))
                  ELSE Begin("Update", "Update", key, val, t)
        /\ ft' = fUpdate(ft, key, val).heap
        /\ stored' = MapUpdate(stored, key, val)
        /\ UNCHANGED <<t, it, call, res, mt, at>>

UpdateStep ==
    /\ run.pc = "Update" /\ run.i < Len(run.key) /\ run.cur # NilPtr
    /\ run' = [run EXCEPT !.cur = getChildBranch(t, run.cur, At(run.key, run.i)),
                          !.i = @ + 1]
    /\ UNCHANGED <<t, ft, it, call, res, stored, mt, at>>

UpdateReturn ==
    /\ run.pc = "Update" /\ ~(run.i < Len(run.key) /\ run.cur # NilPtr)
    /\ IF run.cur = NilPtr \/ ~t[run.cur].validLeaf
       THEN t' = t /\ run' = Done(run, ErrResult(notFound))
       ELSE /\ t' = [t EXCEPT ![run.cur].value = run.val]
            /\ run' = Done(run, ErrResult(NoError))
    /\ UNCHANGED <<ft, it, call, res, stored, mt, at>>

\* trie.Search begins with the walk down the prefix.
BeginSearch ==
    \E key \in Keys :
        /\ run.pc = "idle"
        /\ run' = Begin("SearchWalk", "Search", key, Nil, t)
        /\ UNCHANGED <<t, ft, it, call, res, stored, mt, at>>

SearchWalkStep ==
    /\ run.pc = "SearchWalk" /\ run.i < Len(run.key) /\ run.cur # NilPtr
    /\ run' = [run EXCEPT !.cur = getChildBranch(t, run.cur, At(run.key, run.i)),
                          !.i = @ + 1]
    /\ UNCHANGED <<t, ft, it, call, res, stored, mt, at>>

\* The walk is over: the empty list for a prefix that leads nowhere, else
\* the node reached is the first frame of the stack.
SearchEnter ==
    /\ run.pc = "SearchWalk" /\ ~(run.i < Len(run.key) /\ run.cur # NilPtr)
    /\ run' = IF run.cur = NilPtr THEN Done(run, SearchResult(<<>>))
              ELSE [run EXCEPT !.pc = "Search", !.root = run.cur,
                               !.stack = <<[index |-> -1, leaf |-> run.cur]>>,
                               !.visited = <<run.cur>>]
    /\ UNCHANGED <<t, ft, it, call, res, stored, mt, at>>

\* for tip >= 0 { ... }
SearchStep ==
    /\ run.pc = "Search" /\ Len(run.stack) - 1 >= 0
    /\ LET s == searchStep(t, run.stack, run.results)
       IN  run' = [run EXCEPT !.stack = s.stack, !.results = s.results,
                              !.did = s.did, !.node = s.node,
                              !.visited = Visited(run, s), !.emitted = Emitted(run, s)]
    /\ UNCHANGED <<t, ft, it, call, res, stored, mt, at>>

SearchReturn ==
    /\ run.pc = "Search" /\ ~(Len(run.stack) - 1 >= 0)
    /\ run' = Done(run, SearchResult(run.results))
    /\ UNCHANGED <<t, ft, it, call, res, stored, mt, at>>

\* trie.Remove begins with the walk down the key, pushing what it passes.
BeginRemove ==
    \E key \in Keys :
        /\ run.pc = "idle"
        /\ run' = Begin("RemoveWalk", "Remove", key, Nil, t)
        /\ ft' = fRemove(ft, key).heap
        /\ stored' = MapRemove(stored, key)
        /\ UNCHANGED <<t, it, call, res, mt, at>>

RemoveWalkStep ==
    /\ run.pc = "RemoveWalk" /\ run.i < Len(run.key) /\ run.cur # NilPtr
    /\ run' = [run EXCEPT !.stack = Append(@, run.cur),
                          !.cur = getChildBranch(t, run.cur, At(run.key, run.i)),
                          !.i = @ + 1]
    /\ UNCHANGED <<t, ft, it, call, res, stored, mt, at>>

\* The walk is over: notFound, or the node is cleared and compaction starts.
RemoveClear ==
    /\ run.pc = "RemoveWalk" /\ ~(run.i < Len(run.key) /\ run.cur # NilPtr)
    /\ IF run.cur = NilPtr \/ ~t[run.cur].validLeaf
       THEN t' = t /\ run' = Done(run, ErrResult(notFound))
       ELSE /\ t' = [t EXCEPT ![run.cur].value = Nil, ![run.cur].validLeaf = FALSE]
            /\ run' = [run EXCEPT !.pc = "Chop", !.stack = Append(@, run.cur),
                                  !.tip = Len(run.key)]
    /\ UNCHANGED <<ft, it, call, res, stored, mt, at>>

\* for tip > 0 { ... }: a pass that breaks returns; the nodes cut off are
\* freed once the call has returned.
ChopStep ==
    /\ run.pc = "Chop" /\ run.tip > 0
    /\ LET c == chopStep(t, run.stack, run.tip)
       IN  IF c.brk
           THEN t' = Collect(t) /\ run' = Done(run, ErrResult(NoError))
           ELSE t' = c.heap /\ run' = [run EXCEPT !.tip = c.tip]
    /\ UNCHANGED <<ft, it, call, res, stored, mt, at>>

RemoveReturn ==
    /\ run.pc = "Chop" /\ ~(run.tip > 0)
    /\ t' = Collect(t)
    /\ run' = Done(run, ErrResult(NoError))
    /\ UNCHANGED <<ft, it, call, res, stored, mt, at>>

\* Search of the second listing: the walk, then the first frame.
BeginFSearch ==
    \E key \in Keys :
        /\ run.pc = "idle"
        /\ LET root == fWalk(ft, Root, key)
               b == Begin("fSearch", "fSearch", key, Nil, ft)
           IN  run' = IF root = NilPtr THEN Done(b, SearchResult(<<>>))
                      ELSE [b EXCEPT !.root = root, !.visited = <<root>>,
                                     !.stack = <<[index |-> -1, leaf |-> root]>>]
        /\ UNCHANGED <<t, ft, it, call, res, stored, mt, at>>

FSearchStep ==
    /\ run.pc = "fSearch" /\ Len(run.stack) - 1 >= 0
    /\ LET s == fSearchStep(ft, run.stack, run.results)
       IN  run' = [run EXCEPT !.stack = s.stack, !.results = s.results,
                              !.did = s.did, !.node = s.node,
                              !.visited = Visited(run, s), !.emitted = Emitted(run, s)]
    /\ UNCHANGED <<t, ft, it, call, res, stored, mt, at>>

FSearchReturn ==
    /\ run.pc = "fSearch" /\ ~(Len(run.stack) - 1 >= 0)
    /\ run' = Done(run, SearchResult(run.results))
    /\ UNCHANGED <<t, ft, it, call, res, stored, mt, at>>

\* The caller has its result; the call is forgotten.
Return ==
    /\ run.pc = "done"
    /\ run' = Idle
    /\ UNCHANGED <<t, ft, it, call, res, stored, mt, at>>

\* A call begins.
BeginCall ==
    BeginAdd \/ BeginGet \/ BeginUpdate \/ BeginSearch \/ BeginRemove \/ BeginFSearch

\* The call in progress takes its next pass or returns.
Proceed ==
    \/ AddStep \/ AddReturn
    \/ GetStep \/ GetReturn
    \/ UpdateStep \/ UpdateReturn
    \/ SearchWalkStep \/ SearchEnter \/ SearchStep \/ SearchReturn
    \/ RemoveWalkStep \/ RemoveClear \/ ChopStep \/ RemoveReturn
    \/ FSearchStep \/ FSearchReturn
    \/ Return

NextSteps == BeginCall \/ Proceed

\* A call in progress keeps running: the program is sequential and nothing
\* suspends the goroutine inside a call.
SpecSteps == Init /\ [][NextSteps]_vars /\ WF_vars(Proceed)

\* What a call taken pass by pass returns, and the heap it leaves, are those
\* of the call taken in one step.
StepsAgree ==
    run.pc = "done" =>
        /\ run.op = "Add" =>
               /\ t = Add(run.h0, run.key, run.val).heap
               /\ run.res = Add(run.h0, run.key, run.val).res
        /\ run.op = "Get" => t = run.h0 /\ run.res = Get(run.h0, run.key)
        /\ run.op = "Update" =>
               /\ t = Update(run.h0, run.key, run.val).heap
               /\ run.res = Update(run.h0, run.key, run.val).res
        /\ run.op = "Search" => t = run.h0 /\ run.res = Search(run.h0, run.key)
        /\ run.op = "Remove" =>
               /\ t = Remove(run.h0, run.key).heap
               /\ run.res = Remove(run.h0, run.key).res
        /\ run.op = "fSearch" => ft = run.h0 /\ run.res = fSearch(run.h0, run.key)

\* ------------------------------------------- the five encodings side by side
\* Add, Get and Remove with non-empty keys, the calls every encoding has,
\* made on the two listings of trie.go, iterTrie, the map-keyed Trie and
\* altTrie alike; res holds what each of the five returned.
EqAdd ==
    \E key \in Keys \ {<<>>}, val \in Values :
        LET a == Add(t, key, val)
            fa == fAdd(ft, key, val)
            ia == iterAdd(it, key, val)
            ma == mapAdd(mt, key, val)
            aa == altAdd(at, key, val)
        IN  /\ Cardinality(DOMAIN MapAdd(stored, key, val)) <= MaxStored
            /\ call' = Call("Add", key, val)
            /\ t' = a.heap /\ ft' = fa.heap /\ it' = ia.heap
            /\ mt' = ma.heap /\ at' = aa.heap
            /\ res' = [t |-> a.res, ft |-> fa.res, it |-> ia.res,
                       mt |-> ma.res, at |-> aa.res]
            /\ stored' = MapAdd(stored, key, val)
            /\ UNCHANGED run

EqGet ==
    \E key \in Keys \ {<<>>} :
        /\ call' = Call("Get", key, Nil)
        /\ res' = [t |-> Get(t, key), ft |-> fGet(ft, key), it |-> iterGet(it, key),
                   mt |-> mapGet(mt, key), at |-> altGet(at, key)]
        /\ UNCHANGED <<t, ft, it, mt, at, stored, run>>

EqRemove ==
    \E key \in Keys \ {<<>>} :
        LET r == Remove(t, key)
            fr == fRemove(ft, key)
            ir == iterRemove(it, key)
            mr == mapRemove(mt, key)
            ar == altRemove(at, key)
        IN  /\ call' = Call("Remove", key, Nil)
            /\ t' = r.heap /\ ft' = fr.heap /\ it' = ir.heap
            /\ mt' = mr.heap /\ at' = ar.heap
            /\ res' = [t |-> r.res, ft |-> fr.res, it |-> ir.res,
                       mt |-> mr.res, at |-> ar.res]
            /\ stored' = MapRemove(stored, key)
            /\ UNCHANGED run

NextEquiv == EqAdd \/ EqGet \/ EqRemove

SpecEquiv == Init /\ [][NextEquiv]_vars

\* -------------------------------------------------------- the properties
\* p is a prefix of k (p = k included).
IsPrefix(p, k) == Len(p) <= Len(k) /\ SubSeq(k, 1, Len(p)) = p
\* How often v occurs in the list rs.
Count(rs, v) == Cardinality({i \in 1..Len(rs) : rs[i] = v})
\* The stored keys that start with p, under the map m.
KeysUnder(m, p) == {k \in DOMAIN m : IsPrefix(p, k)}
\* rs holds, as a multiset, exactly the values m gives the keys in ks.
IsBagOf(rs, m, ks) ==
    /\ Len(rs) = Cardinality(ks)
    /\ \A v \in Values \cup {Nil} : Count(rs, v) = Cardinality({k \in ks : m[k] = v})
\* No node other than the root is childless and non-terminal.
NoDeadLeaf(h) ==
    \A p \in Reach(h, Root) \ {Root} : Len(h[p].children) = 0 => h[p].validLeaf
\* The outcomes that are error returns of the contract.
Failures == {emptyKey, duplicateKey, notFound}

\* C1: in every reachable state of each encoding, every node other than the
\* root that has no children is terminal (I2, no dead leaves).
C1_Compact == NoDeadLeaf(t) /\ NoDeadLeaf(ft) /\ NoDeadLeaf(it)

\* C1 witness: a Remove succeeded, the node of its key was pruned, and keys
\* are still stored.
C1_Witness ==
    /\ call.op = "Remove" /\ res.t.err = NoError /\ res.ft.err = NoError
    /\ Len(call.key) = MaxKeyLen
    /\ call.key \notin DOMAIN t /\ call.key \notin DOMAIN ft /\ call.key \notin DOMAIN it
    /\ Cardinality(DOMAIN stored) = 2

\* C2: for every non-empty key k that is not stored and every value v,
\* Add(k, v) returns success and a Get(k) right after it returns (v, true).
C2_RoundTrip ==
    \A k \in Keys \ {<<>>} : \A v \in Values :
        k \notin DOMAIN stored =>
            /\ Add(t, k, v).res.err = NoError
            /\ Get(Add(t, k, v).heap, k) = GetResult(v, TRUE)
            /\ fAdd(ft, k, v).res.err = NoError
            /\ fGet(fAdd(ft, k, v).heap, k) = GetResult(v, TRUE)

\* C2 witness: an Add of a key with a stored proper prefix has just
\* succeeded, and Get returns the value added.
C2_Witness ==
    /\ call.op = "Add" /\ res.t.err = NoError /\ res.ft.err = NoError
    /\ Len(call.key) = 2 /\ Prefix(call.key, 1) \in DOMAIN stored
    /\ Get(t, call.key) = GetResult(call.val, TRUE)
    /\ fGet(ft, call.key) = GetResult(call.val, TRUE)

\* C3: Get reports found only for a terminal node: for a key that is not
\* stored but whose path exists in the tree, and for the empty key, Get
\* returns not-found, in trie.Get and in iterTrie.Get.
C3_GetOnlyTerminal ==
    \A k \in Keys :
        /\ (k = <<>> \/ (k \notin DOMAIN stored /\ walk(t, Root, k, 0) # NilPtr))
               => ~Get(t, k).ok
        /\ (k = <<>> \/ (k \notin DOMAIN stored /\ iterWalk(it, Root, k) # NilPtr))
               => ~iterGet(it, k).ok

\* C4: for every prefix p, Search(p) returns as a multiset exactly the values
\* of the stored keys that start with p; Search("") returns all stored values.
C4_SearchExact ==
    \A p \in Keys :
        /\ IsBagOf(Search(t, p).results, stored, KeysUnder(stored, p))
        /\ IsBagOf(fSearch(ft, p).results, stored, KeysUnder(stored, p))
        /\ IsBagOf(iterSearch(it, p).results, stored, KeysUnder(stored, p))

\* C4 witness: a Search on a non-empty prefix returned two values, one of
\* them of the prefix itself, while a third stored key lies outside the prefix.
C4_Witness ==
    /\ call.op = "Search" /\ call.key # <<>> /\ call.key \in DOMAIN stored
    /\ Len(res.t.results) = 2 /\ Len(res.ft.results) = 2 /\ Len(res.it.results) = 2
    /\ Cardinality(DOMAIN stored) = 3

\* The stored keys that properly extend k.
ProperExtensions(m, k) == KeysUnder(m, k) \ {k}

\* C5: for every stored key k, Remove(k) returns success; afterwards Get(k)
\* is not-found, Get of every other stored key returns what it returned
\* before, and Search(k) returns exactly the values of the stored proper
\* extensions of k (both Remove listings of trie.go).
C5_RemoveCorrect ==
    \A k \in DOMAIN stored :
        LET r == Remove(t, k)
            fr == fRemove(ft, k)
        IN  /\ r.res.err = NoError
            /\ ~Get(r.heap, k).ok
            /\ \A o \in DOMAIN stored \ {k} :
                   /\ Get(r.heap, o) = Get(t, o)
                   /\ Get(t, o) = GetResult(stored[o], TRUE)
            /\ IsBagOf(Search(r.heap, k).results, stored, ProperExtensions(stored, k))
            /\ fr.res.err = NoError
            /\ ~fGet(fr.heap, k).ok
            /\ \A o \in DOMAIN stored \ {k} :
                   /\ fGet(fr.heap, o) = fGet(ft, o)
                   /\ fGet(ft, o) = GetResult(stored[o], TRUE)
            /\ IsBagOf(fSearch(fr.heap, k).results, stored, ProperExtensions(stored, k))

\* C5 witness: a Remove of a key with a stored proper extension succeeded;
\* the key is gone and the extension is still found.
C5_Witness ==
    /\ call.op = "Remove" /\ res.t.err = NoError /\ res.ft.err = NoError
    /\ Len(call.key) = 1
    /\ ~Get(t, call.key).ok /\ ~fGet(ft, call.key).ok
    /\ \E o \in DOMAIN stored : IsPrefix(call.key, o) /\ Get(t, o).ok /\ fGet(ft, o).ok
    /\ \E o \in DOMAIN stored : ~IsPrefix(call.key, o)

\* C6: for every non-empty key that is not stored, Remove returns the
\* KeyNotFound error and never success (trie.Remove, iterTrie.Remove).
C6_RemoveNotFound ==
    \A k \in Keys \ {<<>>} :
        k \notin DOMAIN stored =>
            /\ Remove(t, k).res.err = notFound
            /\ fRemove(ft, k).res.err = notFound
            /\ iterRemove(it, k).res.err = notFound

\* C6 witness: a Remove of a key that is only a branching point (its path
\* exists, the key is not stored) has returned KeyNotFound.
C6_Witness ==
    /\ call.op = "Remove" /\ call.key # <<>>
    /\ res.t.err = notFound /\ res.ft.err = notFound /\ res.it.err = notFound
    /\ call.key \in DOMAIN t /\ call.key \in DOMAIN it

\* C7: if key k is stored with value v1, Add(k, v2) fails with DuplicateKey
\* for every v2, and Get(k) afterwards still returns (v1, true).
C7_DuplicateRejected ==
    \A k \in DOMAIN stored : \A v2 \in Values :
        /\ Add(t, k, v2).res.err = duplicateKey
        /\ Get(Add(t, k, v2).heap, k) = GetResult(stored[k], TRUE)
        /\ fAdd(ft, k, v2).res.err = duplicateKey
        /\ fGet(fAdd(ft, k, v2).heap, k) = GetResult(stored[k], TRUE)
        /\ iterAdd(it, k, v2).res.err = duplicateKey
        /\ iterGet(iterAdd(it, k, v2).heap, k) = GetResult(stored[k], TRUE)

\* C7 witness: an Add of a stored key with another value than the stored one
\* has failed with DuplicateKey.
C7_Witness ==
    /\ call.op = "Add" /\ call.key \in DOMAIN stored
    /\ res.t.err = duplicateKey /\ res.ft.err = duplicateKey /\ res.it.err = duplicateKey
    /\ stored[call.key] # call.val
    /\ Get(t, call.key).value = stored[call.key]

\* C8: Add("", v) fails with EmptyKey for every v and leaves the tree as it
\* was: the root does not become terminal and no node is created.
C8_EmptyKeyRejected ==
    \A v \in Values :
        /\ Add(t, <<>>, v) = [heap |-> t, res |-> ErrResult(emptyKey)]
        /\ fAdd(ft, <<>>, v) = [heap |-> ft, res |-> ErrResult(emptyKey)]
        /\ iterAdd(it, <<>>, v) = [heap |-> it, res |-> ErrResult(emptyKey)]
        /\ ~t[Root].validLeaf /\ ~ft[Root].validLeaf /\ ~it[Root].validLeaf

\* C8 witness: Add("", v) has failed with EmptyKey on a trie that stores keys.
C8_Witness ==
    /\ call.op = "Add" /\ call.key = <<>>
    /\ res.t.err = emptyKey /\ res.ft.err = emptyKey /\ res.it.err = emptyKey
    /\ Cardinality(DOMAIN stored) = MaxStored

\* C9: a call that fails (Add with DuplicateKey or EmptyKey, Remove or Update
\* with KeyNotFound) leaves the whole tree unchanged, hence every Get and
\* Search result too.
C9_FailedCallNoEffect ==
    \A k \in Keys : \A v \in Values :
        /\ Add(t, k, v).res.err \in Failures => Add(t, k, v).heap = t
        /\ Remove(t, k).res.err \in Failures => Remove(t, k).heap = t
        /\ Update(t, k, v).res.err \in Failures => Update(t, k, v).heap = t
        /\ fAdd(ft, k, v).res.err \in Failures => fAdd(ft, k, v).heap = ft
        /\ fRemove(ft, k).res.err \in Failures => fRemove(ft, k).heap = ft
        /\ fUpdate(ft, k, v).res.err \in Failures => fUpdate(ft, k, v).heap = ft

\* C9 witness: an Update of a key that is only a branching point has failed
\* with KeyNotFound.
C9_Witness ==
    /\ call.op = "Update" /\ res.t.err = notFound /\ res.ft.err = notFound
    /\ call.key \in DOMAIN t /\ call.key \in DOMAIN ft
    /\ Len(t[call.key].children) > 0

\* k is a proper prefix of o.
IsProperPrefix(k, o) == IsPrefix(k, o) /\ k # o

\* C10: a successful Add(k, v) does not change the Get result of any other
\* key; a key and its proper prefix can be stored together, in either
\* insertion order, each returning its own value.
C10_PrefixSharing ==
    /\ \A k \in Keys : \A v \in Values :
           /\ Add(t, k, v).res.err = NoError =>
                 \A o \in Keys \ {k} : Get(Add(t, k, v).heap, o) = Get(t, o)
           /\ fAdd(ft, k, v).res.err = NoError =>
                 \A o \in Keys \ {k} : fGet(fAdd(ft, k, v).heap, o) = fGet(ft, o)
    /\ \A k \in Keys \ {<<>>} : \A o \in DOMAIN stored : \A v \in Values :
           (k \notin DOMAIN stored /\ (IsProperPrefix(k, o) \/ IsProperPrefix(o, k))) =>
               /\ Add(t, k, v).res.err = NoError
               /\ Get(Add(t, k, v).heap, k) = GetResult(v, TRUE)
               /\ Get(Add(t, k, v).heap, o) = GetResult(stored[o], TRUE)
               /\ fAdd(ft, k, v).res.err = NoError
               /\ fGet(fAdd(ft, k, v).heap, k) = GetResult(v, TRUE)
               /\ fGet(fAdd(ft, k, v).heap, o) = GetResult(stored[o], TRUE)

\* C10 witness: a key was added after a longer key it is a proper prefix of;
\* both are found, with different values.
C10_Witness ==
    /\ call.op = "Add" /\ res.t.err = NoError /\ res.ft.err = NoError
    /\ Len(call.key) = 1
    /\ \E o \in DOMAIN stored :
           /\ IsProperPrefix(call.key, o)
           /\ Get(t, o) = GetResult(stored[o], TRUE)
           /\ Get(t, call.key) = GetResult(call.val, TRUE)
           /\ fGet(ft, o) = GetResult(stored[o], TRUE)
           /\ fGet(ft, call.key) = GetResult(call.val, TRUE)
           /\ stored[o] # call.val

\* The tree without its values: every node's edges and terminal flag.
Shape(h) == [p \in DOMAIN h |-> [children |-> h[p].children, validLeaf |-> h[p].validLeaf]]
\* The nodes whose value differs between the heaps h and g of one shape.
ValueChanged(h, g) == {p \in DOMAIN h : g[p].value # h[p].value}

\* C11: for every stored key k and value v, Update(k, v) returns success,
\* Get(k) then returns (v, true), and nothing else changes: the shape of the
\* tree, every terminal flag and the value of every other stored key.
C11_UpdateInPlace ==
    \A k \in DOMAIN stored : \A v \in Values :
        LET u == Update(t, k, v)
            fu == fUpdate(ft, k, v)
            iu == iterUpdate(it, k, v)
        IN  /\ u.res.err = NoError
            /\ Get(u.heap, k) = GetResult(v, TRUE)
            /\ Shape(u.heap) = Shape(t)
            /\ ValueChanged(t, u.heap) \subseteq {walk(t, Root, k, 0)}
            /\ \A o \in DOMAIN stored \ {k} : Get(u.heap, o) = GetResult(stored[o], TRUE)
            /\ fu.res.err = NoError
            /\ fGet(fu.heap, k) = GetResult(v, TRUE)
            /\ Shape(fu.heap) = Shape(ft)
            /\ ValueChanged(ft, fu.heap) \subseteq {fWalk(ft, Root, k)}
            /\ \A o \in DOMAIN stored \ {k} : fGet(fu.heap, o) = GetResult(stored[o], TRUE)
            /\ iu.res.err = NoError
            /\ iterGet(iu.heap, k) = GetResult(v, TRUE)
            /\ Shape(iu.heap) = Shape(it)
            /\ ValueChanged(it, iu.heap) \subseteq {iterWalk(it, Root, k)}
            /\ \A o \in DOMAIN stored \ {k} : iterGet(iu.heap, o) = GetResult(stored[o], TRUE)

\* C11 witness: an Update of a stored key that has a stored proper extension
\* succeeded, and Get returns the new value for it and the old for the other.
C11_Witness ==
    /\ call.op = "Update" /\ res.t.err = NoError /\ res.ft.err = NoError
    /\ res.it.err = NoError
    /\ Get(t, call.key) = GetResult(call.val, TRUE)
    /\ \E o \in DOMAIN stored :
           /\ IsProperPrefix(call.key, o)
           /\ stored[o] # call.val
           /\ Get(t, o) = GetResult(stored[o], TRUE)

\* C12: for every non-empty key k that is not stored, Update(k, v) fails with
\* KeyNotFound and does not insert k: Get(k) stays not-found.
C12_UpdateAbsent ==
    \A k \in Keys \ {<<>>} : \A v \in Values :
        k \notin DOMAIN stored =>
            /\ Update(t, k, v).res.err = notFound
            /\ ~Get(Update(t, k, v).heap, k).ok
            /\ fUpdate(ft, k, v).res.err = notFound
            /\ ~fGet(fUpdate(ft, k, v).heap, k).ok
            /\ iterUpdate(it, k, v).res.err = notFound
            /\ iterUpdate(it, k, v).heap = it

\* C12 witness: an Update of a key whose path is missing has failed with
\* KeyNotFound on a trie that stores other keys, and the key is not found.
C12_Witness ==
    /\ call.op = "Update" /\ call.key # <<>>
    /\ res.t.err = notFound /\ res.ft.err = notFound /\ res.it.err = notFound
    /\ call.key \notin DOMAIN t /\ call.key \notin DOMAIN ft
    /\ ~Get(t, call.key).ok /\ ~fGet(ft, call.key).ok
    /\ stored # EmptyMap

\* C13: Remove("") returns KeyNotFound as an ordinary error result, without
\* a crash, and leaves the tree unchanged, in both Remove listings of
\* trie.go and in iterTrie.Remove.
C13_RemoveEmptyKey ==
    /\ Remove(t, <<>>) = [heap |-> t, res |-> ErrResult(notFound)]
    /\ fRemove(ft, <<>>) = [heap |-> ft, res |-> ErrResult(notFound)]
    /\ iterRemove(it, <<>>) = [heap |-> it, res |-> ErrResult(notFound)]

\* C14: Update("", v) fails with KeyNotFound, as an ordinary error result,
\* and leaves the tree unchanged, in trie.Update and iterTrie.Update.
C14_UpdateEmptyKey ==
    \A v \in Values :
        /\ Update(t, <<>>, v) = [heap |-> t, res |-> ErrResult(notFound)]
        /\ fUpdate(ft, <<>>, v) = [heap |-> ft, res |-> ErrResult(notFound)]
        /\ iterUpdate(it, <<>>, v) = [heap |-> it, res |-> ErrResult(notFound)]

\* The heaps h and g hold the same nodes with the same edges.
SameEdges(h, g) == DOMAIN g = DOMAIN h /\ \A p \in DOMAIN h : g[p].children = h[p].children

\* C15: a Get or a Search, of any key or prefix, leaves the tree entirely
\* unchanged, and an Update never adds or removes a node or an edge.
C15_NoNodeCreated ==
    [][/\ call'.op \in {"Get", "Search"} => (t' = t /\ ft' = ft /\ it' = it)
       /\ call'.op = "Update" =>
              (SameEdges(t, t') /\ SameEdges(ft, ft') /\ SameEdges(it, it'))]_vars

\* C15 witness: an Update of a key of which only the first letter has a node
\* has returned, and there is still no node for the key.
C15_Witness ==
    /\ call.op = "Update" /\ Len(call.key) = 2
    /\ Prefix(call.key, 1) \in DOMAIN t /\ call.key \notin DOMAIN t
    /\ Prefix(call.key, 1) \in DOMAIN ft /\ call.key \notin DOMAIN ft
    /\ Prefix(call.key, 1) \in DOMAIN it /\ call.key \notin DOMAIN it

\* Edges labelled key[1], key[2], ... lead down from node p.
RECURSIVE HasPath(_, _, _)
HasPath(h, p, key) ==
    \/ key = <<>>
    \/ \E i \in 1..Len(h[p].children) :
           /\ h[p].children[i].letter = key[1]
           /\ HasPath(h, h[p].children[i].branch, Rest(key))

\* C16: Search on a prefix whose path does not exist in the tree returns an
\* empty list, on every reachable trie, the empty one included.
C16_SearchMissingPrefix ==
    \A p \in Keys :
        /\ ~HasPath(t, Root, p) => Search(t, p).results = <<>>
        /\ ~HasPath(ft, Root, p) => fSearch(ft, p).results = <<>>

\* C16 witness: a Search on a prefix of which only the first letter has a
\* node has returned the empty list, while keys are stored.
C16_Witness ==
    /\ call.op = "Search" /\ Len(call.key) = 2
    /\ HasPath(t, Root, Prefix(call.key, 1)) /\ ~HasPath(t, Root, call.key)
    /\ HasPath(ft, Root, Prefix(call.key, 1)) /\ ~HasPath(ft, Root, call.key)
    /\ res.t.results = <<>> /\ res.ft.results = <<>>
    /\ Cardinality(DOMAIN stored) >= 2

\* Every edge leads to the node addressed by the path it completes.
AddressedByPath(h) ==
    \A p \in DOMAIN h : \A i \in 1..Len(h[p].children) :
        h[p].children[i].branch = Append(p, h[p].children[i].letter)
\* The nodes on the path of key k, the root excluded.
PathNodes(k) == {Prefix(k, n) : n \in 1..Len(k)}
\* The maximal chain at the deep end of k's path that is dead once k's node
\* is cleared: from the node on, down to k's node, no node is terminal
\* (k's own flag aside) or has an edge off the path.
DeadChain(h, k) ==
    {q \in PathNodes(k) :
        \A n \in Len(q)..Len(k) :
            /\ n = Len(k) \/ ~h[Prefix(k, n)].validLeaf
            /\ Len(h[Prefix(k, n)].children) = IF n = Len(k) THEN 0 ELSE 1}
\* The edges (label, child) of a node, as a set.
EdgeSet(n) == {n.children[i] : i \in 1..Len(n.children)}
\* g is h with k's node cleared and exactly the nodes of chain deleted; every
\* other node keeps its flag, value and edges (in any order).
RemovedExactly(h, g, k, chain) ==
    /\ DOMAIN g = DOMAIN h \ chain
    /\ Root \in DOMAIN g
    /\ \A p \in DOMAIN g :
           /\ g[p].validLeaf = (h[p].validLeaf /\ p # k)
           /\ g[p].value = IF p = k THEN Nil ELSE h[p].value
           /\ EdgeSet(g[p]) = {e \in EdgeSet(h[p]) : e.branch \notin chain}
           /\ Len(g[p].children) = Cardinality(EdgeSet(g[p]))

\* C17: a successful Remove(k) deletes exactly the maximal chain of dead
\* nodes at the deep end of k's path, stops at the first node that is
\* terminal or has a child left, never deletes the root, and keeps every
\* other node with its label, flag, value and remaining children.
C17_CompactionScope ==
    /\ AddressedByPath(t) /\ AddressedByPath(ft)
    /\ \A k \in DOMAIN stored :
           /\ Remove(t, k).res.err = NoError
           /\ RemovedExactly(t, Remove(t, k).heap, k, DeadChain(t, k))
           /\ fRemove(ft, k).res.err = NoError
           /\ RemovedExactly(ft, fRemove(ft, k).heap, k, DeadChain(ft, k))

\* C17 witness: a Remove has pruned the node of its key and the node above
\* it, and the root still has children.
C17_Witness ==
    /\ call.op = "Remove" /\ res.t.err = NoError /\ res.ft.err = NoError
    /\ Len(call.key) = 2
    /\ call.key \notin DOMAIN t /\ Prefix(call.key, 1) \notin DOMAIN t
    /\ call.key \notin DOMAIN ft /\ Prefix(call.key, 1) \notin DOMAIN ft
    /\ Len(t[Root].children) > 0 /\ Len(ft[Root].children) > 0

\* The terminal nodes below node p, each with the key its edge labels spell
\* after path and with its value.
RECURSIVE SpelledFrom(_, _, _)
SpelledFrom(h, p, path) ==
    (IF h[p].validLeaf THEN {[key |-> path, value |-> h[p].value, node |-> p]} ELSE {})
    \cup UNION {SpelledFrom(h, h[p].children[i].branch,
                            Append(path, h[p].children[i].letter)) :
                    i \in 1..Len(h[p].children)}
\* The terminal nodes of h spell the keys of m, one node a key, with m's values.
Refines(h, m) ==
    LET s == SpelledFrom(h, Root, <<>>)
    IN  /\ {e.key : e \in s} = DOMAIN m
        /\ \A e \in s : e.value = m[e.key]
        /\ Cardinality(s) = Cardinality(DOMAIN m)

\* C18: after every call, the keys spelled by the root-to-terminal-node paths
\* are the keys of the abstract map built by the same calls, each terminal
\* node holds the map's value, and each key has exactly one terminal node.
C18_RefinesMap == Refines(t, stored) /\ Refines(ft, stored) /\ Refines(it, stored)

\* C18 witness: after a Remove, two keys with different values are left, one
\* a proper prefix of the other.
C18_Witness ==
    /\ call.op = "Remove" /\ res.t.err = NoError
    /\ \E k, o \in DOMAIN stored : IsProperPrefix(k, o) /\ stored[k] # stored[o]
    /\ Cardinality(SpelledFrom(t, Root, <<>>)) = 2

\* No node of h has two edges with the same label.
NoDupEdge(h) ==
    \A p \in DOMAIN h : \A i, j \in 1..Len(h[p].children) :
        i # j => h[p].children[i].letter # h[p].children[j].letter

\* C19: in every reachable state no node has two child edges with the same
\* label (I3), through Add's child creation and Remove's swap-with-last.
C19_EdgeUnique == NoDupEdge(t) /\ NoDupEdge(ft) /\ NoDupEdge(it)

\* C19 witness: a Remove has pruned one of two children of a node below the
\* root, and the root has two edges.
C19_Witness ==
    /\ call.op = "Remove" /\ res.t.err = NoError /\ Len(call.key) = 2
    /\ call.key \notin DOMAIN t
    /\ Prefix(call.key, 1) \in DOMAIN t /\ Len(t[Prefix(call.key, 1)].children) = 1
    /\ Len(t[Root].children) = 2 /\ Len(ft[Root].children) = 2 /\ Len(it[Root].children) = 2

\* Every non-terminal node of h holds the nil value.
ValueValid(h) == \A p \in DOMAIN h : ~h[p].validLeaf => h[p].value = Nil

\* C20: in every reachable state every non-terminal node, the root and the
\* intermediate path nodes included, holds the nil value; the node of a
\* removed key that survives compaction has its value cleared (I4).
C20_ValueValid == ValueValid(t) /\ ValueValid(ft) /\ ValueValid(it)

\* C20 witness: a Remove succeeded and the node of its key survives as a
\* branching node, non-terminal and with the nil value.
C20_Witness ==
    /\ call.op = "Remove" /\ res.t.err = NoError /\ res.ft.err = NoError
    /\ res.it.err = NoError
    /\ call.key \in DOMAIN t /\ ~t[call.key].validLeaf /\ t[call.key].value = Nil
    /\ call.key \in DOMAIN ft /\ ~ft[call.key].validLeaf /\ ft[call.key].value = Nil
    /\ call.key \in DOMAIN it /\ ~it[call.key].validLeaf /\ it[call.key].value = Nil

\* C21: whenever the Search loop of the first listing meets a child without
\* children and appends its value without testing validLeaf, that child is
\* terminal; Search never returns the nil placeholder of a non-terminal node.
C21_LeafShortcut ==
    /\ (run.pc = "Search" /\ run.did = "shortcut") =>
           /\ Len(t[run.node].children) = 0
           /\ t[run.node].validLeaf
           /\ run.results[Len(run.results)] = t[run.node].value
    /\ run.op = "Search" =>
           /\ \A i \in 1..Len(run.emitted) : t[run.emitted[i]].validLeaf
           /\ \A i \in 1..Len(run.results) : run.results[i] # Nil

\* C21 witness: below a pushed non-terminal node, the loop has just appended
\* the value of a childless child without pushing it, after an earlier result.
C21_Witness ==
    /\ run.pc = "Search" /\ run.did = "shortcut"
    /\ Len(run.stack) = 2 /\ ~t[run.stack[2].leaf].validLeaf
    /\ Len(run.results) = 2
    /\ run.results[2] = t[run.node].value

\* The number of nodes on the longest path down from node p.
RECURSIVE Height(_, _)
Height(h, p) ==
    LET below == {Height(h, h[p].children[i].branch) : i \in 1..Len(h[p].children)}
    IN  1 + (IF below = {} THEN 0 ELSE CHOOSE x \in below : \A y \in below : y <= x)
\* The frames of stack are one path down from root: each frame but the top
\* one points, by its index, at the child that is the next frame's node.
IsChain(h, stack, root) ==
    /\ Len(stack) > 0 => stack[1].leaf = root
    /\ \A i \in 1..(Len(stack) - 1) :
           /\ stack[i].index \in 0..(Len(h[stack[i].leaf].children) - 1)
           /\ At(h[stack[i].leaf].children, stack[i].index).branch = stack[i + 1].leaf
\* No element occurs twice in the list s.
NoRepeat(s) == \A i, j \in 1..Len(s) : i # j => s[i] # s[j]
\* The elements of the list s.
Range(s) == {s[i] : i \in 1..Len(s)}

\* C22: during the depth-first walk of Search (both listings) the stack is a
\* single path down from the node the search starts at, never deeper than
\* the longest path of that subtree; no node is visited twice and no value
\* appended twice; when the loop is over, every node of the subtree has been
\* visited and the value of every terminal node, and of no other, appended.
C22_SearchDiscipline ==
    LET h == IF run.op = "Search" THEN t ELSE ft IN
    /\ run.pc \in {"Search", "fSearch"} =>
           /\ IsChain(h, run.stack, run.root)
           /\ Len(run.stack) <= Height(h, run.root)
           /\ NoRepeat(run.visited) /\ NoRepeat(run.emitted)
           /\ Range(run.visited) \subseteq Reach(h, run.root)
           /\ Range(run.emitted) \subseteq Range(run.visited)
           /\ Len(run.results) = Len(run.emitted)
           /\ \A i \in 1..Len(run.emitted) : run.results[i] = h[run.emitted[i]].value
    /\ (run.pc = "done" /\ run.op \in {"Search", "fSearch"} /\ run.root # NilPtr) =>
           /\ run.stack = <<>>
           /\ NoRepeat(run.visited) /\ NoRepeat(run.emitted)
           /\ Range(run.visited) = Reach(h, run.root)
           /\ Range(run.emitted) = {p \in Reach(h, run.root) : h[p].validLeaf}
           /\ run.res.results = run.results

\* C22 witness: the stack of the second listing's Search is three frames
\* deep, on a subtree of height three, after values have been appended.
C22_Witness ==
    /\ run.pc = "fSearch" /\ Len(run.stack) = 3
    /\ Height(ft, run.root) = 3
    /\ Len(run.visited) >= 4 /\ Len(run.emitted) >= 2

\* C23: every call of Add, Get, Update, Remove and Search that has begun
\* returns; a Search whose loop was entered returns with an empty stack, and
\* the compaction loop of Remove ends with tip at or before the root frame.
C23_Terminates ==
    /\ (run.pc \notin {"idle", "done"}) ~> (run.pc = "done")
    /\ [](run.pc = "done" /\ run.op = "Search" => run.stack = <<>>)
    /\ [](run.op = "Remove" =>
              /\ run.tip \in 0..Len(run.key)
              /\ Root \in DOMAIN t
              /\ run.pc = "Chop" => At(run.stack, 0) = Root)

\* C23 witness: a Remove has returned after its compaction loop pruned the
\* whole path of a two-letter key and stopped at the root.
C23_Witness ==
    /\ run.pc = "done" /\ run.op = "Remove" /\ run.res.err = NoError
    /\ Len(run.key) = 2 /\ run.tip = 0
    /\ Len(t[Root].children) > 0

\* What the caller can tell of a result: success or failure, and the pair
\* Get returns.
Outcome(r) == [success |-> r.err = NoError, value |-> r.value, ok |-> r.ok]

\* C24: on every sequence of Add, Get and Remove calls with non-empty keys,
\* the map-keyed Trie, altTrie and iterTrie return the same success or
\* failure and the same Get result as the trie of trie.go.
C24_EncodingsAgree ==
    call.op \in {"Add", "Get", "Remove"} =>
        /\ Outcome(res.ft) = Outcome(res.t)
        /\ Outcome(res.it) = Outcome(res.t)
        /\ Outcome(res.mt) = Outcome(res.t)
        /\ Outcome(res.at) = Outcome(res.t)

\* The tree up to the order of siblings: every node with its terminal flag,
\* its value and the set of its labelled edges.
Unordered(h) ==
    [p \in DOMAIN h |-> [edges |-> EdgeSet(h[p]), degree |-> Len(h[p].children),
                         validLeaf |-> h[p].validLeaf, value |-> h[p].value]]

\* C25: for every non-empty key k that is not stored and every value v,
\* Add(k, v) succeeds and the Remove(k) after it succeeds and gives back the
\* tree as it was before the Add, up to the order of siblings: every node
\* the Add created is pruned and every node there was before is kept.
C25_AddRemoveInverse ==
    \A k \in Keys \ {<<>>} : \A v \in Values :
        k \notin DOMAIN stored =>
            LET a == Add(t, k, v)
                r == Remove(a.heap, k)
                fa == fAdd(ft, k, v)
                fr == fRemove(fa.heap, k)
            IN  /\ a.res.err = NoError /\ r.res.err = NoError
                /\ Unordered(r.heap) = Unordered(t)
                /\ (DOMAIN a.heap \ DOMAIN t) \cap DOMAIN r.heap = {}
                /\ DOMAIN t \subseteq DOMAIN r.heap
                /\ fa.res.err = NoError /\ fr.res.err = NoError
                /\ Unordered(fr.heap) = Unordered(ft)
                /\ (DOMAIN fa.heap \ DOMAIN ft) \cap DOMAIN fr.heap = {}
                /\ DOMAIN ft \subseteq DOMAIN fr.heap

\* C25 witness: a two-letter key has just been removed with its whole path;
\* adding it again creates two nodes, and removing it again gives this tree,
\* which stores other keys.
C25_Witness ==
    /\ call.op = "Remove" /\ res.t.err = NoError /\ res.ft.err = NoError
    /\ Len(call.key) = 2 /\ Prefix(call.key, 1) \notin DOMAIN t
    /\ Cardinality(DOMAIN stored) = 2
    /\ Cardinality(DOMAIN Add(t, call.key, 1).heap) = Cardinality(DOMAIN t) + 2
    /\ Remove(Add(t, call.key, 1).heap, call.key).heap = t
    /\ fRemove(fAdd(ft, call.key, 1).heap, call.key).heap = ft

\* The root of h is there, non-terminal, with the nil value.
PlainRoot(h) == Root \in DOMAIN h /\ ~h[Root].validLeaf /\ h[Root].value = Nil
\* The terminal nodes of h other than the root.
TerminalBelowRoot(h) == {p \in DOMAIN h \ {Root} : h[p].validLeaf}

\* C26: in every reachable state the root exists, is not terminal and holds
\* the nil value; Search("") returns one value for each terminal node below
\* the root and none for the root; no call with the empty key changes the
\* root.
C26_RootPlain ==
    /\ PlainRoot(t) /\ PlainRoot(ft) /\ PlainRoot(it)
    /\ Len(Search(t, <<>>).results) = Cardinality(TerminalBelowRoot(t))
    /\ Len(fSearch(ft, <<>>).results) = Cardinality(TerminalBelowRoot(ft))
    /\ Count(Search(t, <<>>).results, Nil) = 0
    /\ Count(fSearch(ft, <<>>).results, Nil) = 0
    /\ \A v \in Values :
           /\ PlainRoot(Add(t, <<>>, v).heap) /\ PlainRoot(fAdd(ft, <<>>, v).heap)
           /\ PlainRoot(Update(t, <<>>, v).heap) /\ PlainRoot(fUpdate(ft, <<>>, v).heap)
           /\ PlainRoot(Remove(t, <<>>).heap) /\ PlainRoot(fRemove(ft, <<>>).heap)
    /\ \A k \in DOMAIN stored : PlainRoot(Remove(t, k).heap) /\ PlainRoot(fRemove(ft, k).heap)

\* C26 witness: a Remove of a two-letter key has pruned the last nodes of the
\* tree: the root alone is left, in each encoding.
C26_Witness ==
    /\ call.op = "Remove" /\ res.t.err = NoError /\ Len(call.key) = 2
    /\ DOMAIN t = {Root} /\ DOMAIN ft = {Root} /\ DOMAIN it = {Root}
    /\ t[Root].children = <<>>

====
